---- MODULE Spec2Model ----
(***************************************************************************)
(* Spin-state synchronisation of the raffle wheel: the spinWheel cloud     *)
(* function (the coordinator), the spin_state/current document, the        *)
(* participants and draws collections, and the AdminSessionControl page    *)
(* (listener, reveal timer, winner confirmation).                          *)
(* Times are in milliseconds, angles in degrees.                           *)
(***************************************************************************)
EXTENDS Integers, Sequences, FiniteSets, Bags, TLC

\* ---------------------------------------------------------------- bounds
MaxTime == 30000          \* the clock stops here
MaxSpins == 2             \* spin records ever written
MaxParticipants == 2      \* participant documents ever created
MaxInvocations == 2       \* winner confirmations of one page in flight at once
MaxTimers == 2            \* reveal timers of one page pending at once
MaxJoins == 3             \* participant documents ever created through the join flow
MaxSessions == 2          \* sessions ever created
MaxAuthCalls == 2         \* Firestore calls of the AuthProvider in flight at once
MaxSubscriptions == 2     \* participants listeners one Index page ever sets up

\* ------------------------------------------------------ program constants
baseRotations == 5
FreshnessWindowMs == 30000
\* the advertised minimum interval between two spins of a session
CooldownMs == 30000
RevealMarginMs == 500
InitialSpinDuration == 4000

TickSteps == {15000}
baseDuration == 4000
\* Math.random() * 1.5 s in whole ms: the least and the greatest value of the draw
DurationVariations == {0, 1499}

\* the duration with the variation counted twice
DurationWithVariationTwice(durationVariation) == baseDuration + 2 * durationVariation

\* duration = baseDuration + durationVariation
Duration(durationVariation) == baseDuration + durationVariation

Durations == {Duration(v) : v \in DurationVariations}

Names == {"Ann"}                       \* names typed into AddParticipantDialog
Admins == {"a1"}                       \* open AdminSessionControl pages, one per admin
Privileged == {"a1", "a2"}             \* users with the admin role
Callers == {"a1", "a2", "guest"}       \* whoever can reach the callable function
Observers == {"o1"}                    \* open Index pages, one per observer
\* how far an observer's device clock can be ahead of the server's, in ms
ClockSkews == {-31000, 0, 31000}
\* the instants the clock of the observers' session is advanced to
ObserverInstants == {2000, 7000, 30000}
\* the instants the clock is advanced to while spins overlap
RevealInstants == {2000, 5000, 15000}
\* roster sizes of the rotation check; the model's whole degrees are exact for these
RosterSizes == {1, 2, 3, 4, 5, 6}
RosterNames == <<"A", "B", "C", "D", "E", "F">>
\* roster sizes of the sessions whose roster changes during a spin
WheelRosterSizes == {2}
Session == "s1"
\* open JoinSessionModals, one per visitor
Joiners == {"j1", "j2"}
\* the JoinSessionModals whose Index page is followed, and that page
PageModals == {"m1"}
PageOf(j) == "o1"
\* what visitors type as their name
TypedNames == {"Ann", " Ann "}
\* what visitors type, or a QR link carries, as the session code
TypedCodes == {"aaaaaa", "a2-a2 a2", "AAAAAA99", "aa2", "i0-O1!"}
\* the values of Math.floor(Math.random() * characters.length) taken into account
RandomIndexes == {0, 24}
\* the ids of the sessions, in the order of their creation
SessionIds == <<"s1", "s2">>
\* the random indexes drawn for the codes of the sessions of one dashboard
SessionDraws == {[i \in 1..6 |-> 0], [i \in 1..6 |-> 24]}
\* the accounts: u1 is an admin from the start, u2 has not signed up yet
Users == {"u1", "u2"}
NoUser == ""
NoSession == ""

NoParticipant == [id |-> 0, name |-> ""]
NoSpinId == 0
NoTimestamp == -1
Unsubscribed == -1

\* spin_state/current before the first spin: the document does not exist
NoDoc == [exists |-> FALSE, isSpinning |-> FALSE, winner |-> NoParticipant,
          rotation |-> 0, duration |-> 0, timestamp |-> NoTimestamp,
          participantCount |-> 0, spinId |-> NoSpinId]

NoResult == [kind |-> "none"]
IdleRespin == [pc |-> "idle", draw |-> 0]
\* the JoinSessionModal as opened
IdleJoin == [pc |-> "idle", formattedCode |-> "", participantName |-> "",
             sessionId |-> NoSession, existingParticipants |-> <<>>, result |-> ""]
\* the AuthProvider as mounted, and after the first auth state without a user
MountedAuthProvider == [user |-> NoUser, isAdmin |-> FALSE, loading |-> TRUE,
                        adminLoading |-> FALSE]
\* the Index page as mounted
\* activeSession is kept as two fields, whether it is set and its id;
\* participantId is the participant of verificationData; localStorage holds the
\* ids of the joined_ keys; subscriptions the sessions of the participants
\* listeners that loadParticipants has set up
FreshIndex ==
  [activeSession |-> FALSE, participants |-> <<>>, isSpinning |-> FALSE, winner |-> "",
   spinDuration |-> InitialSpinDuration, finalRotation |-> 0, showConfetti |-> FALSE,
   lastProcessedSpinId |-> NoSpinId, sessionId |-> NoSession, joinedName |-> "",
   participantId |-> 0, localStorage |-> {}, subscriptions |-> <<>>, toast |-> ""]
\* a visitor whose own participant document is not followed
Visitor == [id |-> 0, name |-> "Visitor"]
YouWon == "Congratulations! You won!"
WinnerIs(name) == "Winner: " \o name
LeftSession == "Left session successfully. You can now join another session."
IdleCall == [pc |-> "idle", sessionId |-> NoSession, participants |-> <<>>,
             result |-> NoResult]

VARIABLES
  now,            \* server time
  roster,         \* participants of the session, ordered by joined_at
  nextParticipantId,
  spinState,      \* sessions/{id}/spin_state/current
  nextSpinId,     \* spin ids handed out so far (crypto.randomUUID never repeats)
  draws,          \* the draws collection
  call,           \* spinWheel invocation of each caller
  participants, isSpinning, winner, winnerParticipant,
  showWinnerAnnouncement, showConfetti, spinDuration, finalRotation,
  lastProcessedSpinId,                 \* state of each AdminSessionControl page
  timers,         \* pending reveal timers of each page
  confirm,        \* handleCloseWinnerAnnouncement invocations in flight
  toast,          \* the toast each page shows in the step just taken
  confirming,     \* history: the spins a winner confirmation was started for
  historyDraws,   \* draws state of each page's SpinHistory card
  respin,         \* handleRespin invocation of each SpinHistory card
  index,          \* state of each observer's Index page
  listener,       \* lastProcessedSpinId captured by each Index page's subscribed listener
  indexTimers,    \* pending reveal timers of each Index page
  rotation,       \* rotation state of each Index page's WheelSpinner
  clockSkew,      \* how far each observer's device clock is ahead of the server's
  sessions,       \* the sessions collection, in the order of created_at
  join,           \* handleJoin invocation and form of each JoinSessionModal
  userRoles,      \* the account of each user and its user_roles document
  authProvider,   \* state of the AuthProvider of one browser
  authCalls       \* Firestore calls of the AuthProvider and of signUp in flight

serverVars == <<now, roster, nextParticipantId, spinState, nextSpinId, draws>>
\* what the spin state listener copies from a record
wheelVars == <<winner, winnerParticipant, spinDuration, finalRotation, lastProcessedSpinId>>
pageVars == <<participants, isSpinning, wheelVars, showWinnerAnnouncement, showConfetti,
              timers, confirm, confirming>>
historyVars == <<historyDraws, respin>>
observerVars == <<index, listener, indexTimers, rotation, clockSkew>>
authVars == <<userRoles, authProvider, authCalls>>
joinVars == <<sessions, join, authVars>>
vars == <<serverVars, call, pageVars, toast, historyVars, observerVars, joinVars>>

NoToast == [a \in Admins |-> ""]
Toast(a, text) == [NoToast EXCEPT ![a] = text]

\* ---------------------------------------------------------------- helpers
RECURSIVE WithoutId(_, _)
WithoutId(s, id) ==
  IF s = <<>> THEN <<>>
  ELSE IF Head(s).id = id THEN WithoutId(Tail(s), id)
       ELSE <<Head(s)>> \o WithoutId(Tail(s), id)

RemoveAt(s, k) == [j \in 1..(Len(s) - 1) |-> IF j < k THEN s[j] ELSE s[j + 1]]

Ids(s) == {s[k].id : k \in 1..Len(s)}

\* Math.round(duration * 100) / 100, on milliseconds
Round2(ms) == ((ms + 5) \div 10) * 10

\* ------------------------------------------------ spinWheel (coordinator)
\* the rotation aimed at the start of the winner's segment, not its centre
FinalRotationToSegmentStart(winnerIndex, n) ==
  LET winnerSegmentCenter == (winnerIndex * 360) \div n
      targetAngle == 360 - winnerSegmentCenter
  IN  baseRotations * 360 + targetAngle

\* the rotation without the full turns: the target angle alone
FinalRotationWithoutBaseRotations(winnerIndex, n) ==
  LET winnerSegmentCenter == (winnerIndex * 360 + 180) \div n
      targetAngle == 360 - winnerSegmentCenter
  IN  targetAngle

\* rotation of the wheel for the winner at 0-based index i among n participants
FinalRotation(winnerIndex, n) ==
  \* segmentAngle = 360 / n; the centre is kept as one quotient, exact for n <= 6
  LET winnerSegmentCenter == (winnerIndex * 360 + 180) \div n
      targetAngle == 360 - winnerSegmentCenter
  IN  baseRotations * 360 + targetAngle

\* the record with one full turn less
SpinRecordWithFourRotations(w, i, n, d, id) ==
  [exists |-> TRUE, isSpinning |-> TRUE, winner |-> w,
   rotation |-> FinalRotation(i, n) - 360, duration |-> d, timestamp |-> now,
   participantCount |-> n, spinId |-> id]

SpinRecord(w, i, n, d, id) ==
  [exists |-> TRUE, isSpinning |-> TRUE, winner |-> w,
   rotation |-> FinalRotation(i, n), duration |-> d, timestamp |-> now,
   participantCount |-> n, spinId |-> id]

\* the object spinWheel returns
SpinData(w, i, n, d) ==
  [kind |-> "ok", winner |-> w, rotation |-> FinalRotation(i, n),
   duration |-> Round2(d), timestamp |-> now, participantCount |-> n]

HttpsError(errorCode) == [kind |-> "error", code |-> errorCode]

Returning(c, res) ==
  [pc |-> "returning", sessionId |-> call[c].sessionId, participants |-> <<>>,
   result |-> res]

\* spinWheel without its "No participants found" check
SpinWheelFetchWithoutRosterCheck(c) ==
  /\ UNCHANGED <<historyVars, observerVars, joinVars>>
  /\ call[c].pc = "called"
  /\ call' = [call EXCEPT ![c] =
       IF call[c].sessionId = NoSession
       THEN Returning(c, HttpsError("invalid-argument"))
       ELSE [call[c] EXCEPT !.pc = "fetched", !.participants = roster]]
  /\ toast' = NoToast
  /\ UNCHANGED <<serverVars, pageVars>>

\* the callable is entered: the request data is read and the participants fetched
SpinWheelFetch(c) ==
  /\ UNCHANGED <<historyVars, observerVars, joinVars>>
  /\ call[c].pc = "called"
  /\ call' = [call EXCEPT ![c] =
       IF call[c].sessionId = NoSession
       THEN Returning(c, HttpsError("invalid-argument"))
       ELSE IF roster = <<>>
       THEN Returning(c, HttpsError("failed-precondition"))
       ELSE [call[c] EXCEPT !.pc = "fetched", !.participants = roster]]
  /\ toast' = NoToast
  /\ UNCHANGED <<serverVars, pageVars>>

\* spinWheel always taking the first participant whatever index it draws
SpinWheelWriteFirstParticipant(c) ==
  /\ UNCHANGED <<historyVars, observerVars, joinVars>>
  /\ call[c].pc = "fetched"
  /\ nextSpinId < MaxSpins
  /\ \E winnerIndex \in 0..(Len(call[c].participants) - 1), d \in Durations :
       LET ps == call[c].participants
           w == ps[1]
           rec == SpinRecord(w, winnerIndex, Len(ps), d, nextSpinId + 1)
       IN  /\ spinState' = rec
           /\ call' = [call EXCEPT ![c] =
                Returning(c, SpinData(w, winnerIndex, Len(ps), d))]
  /\ nextSpinId' = nextSpinId + 1
  /\ toast' = NoToast
  /\ UNCHANGED <<now, roster, nextParticipantId, draws, pageVars>>

\* winner, rotation and duration are drawn, the record is set, the payload returned
SpinWheelWrite(c) ==
  /\ UNCHANGED <<historyVars, observerVars, joinVars>>
  /\ call[c].pc = "fetched"
  /\ nextSpinId < MaxSpins
  /\ \E winnerIndex \in 0..(Len(call[c].participants) - 1), d \in Durations :
       LET ps == call[c].participants
           w == ps[winnerIndex + 1]
           rec == SpinRecord(w, winnerIndex, Len(ps), d, nextSpinId + 1)
       IN  /\ spinState' = rec
           /\ call' = [call EXCEPT ![c] =
                Returning(c, SpinData(w, winnerIndex, Len(ps), d))]
  /\ nextSpinId' = nextSpinId + 1
  /\ toast' = NoToast
  /\ UNCHANGED <<now, roster, nextParticipantId, draws, pageVars>>

\* the write fails: nothing is stored, the caller gets an internal error
SpinWheelWriteFails(c) ==
  /\ UNCHANGED <<historyVars, observerVars, joinVars>>
  /\ call[c].pc = "fetched"
  /\ call' = [call EXCEPT ![c] = Returning(c, HttpsError("internal"))]
  /\ toast' = NoToast
  /\ UNCHANGED <<serverVars, pageVars>>

\* a caller without an admin page invokes the callable directly
DirectCall(c, sessionId) ==
  /\ UNCHANGED <<historyVars, observerVars, joinVars>>
  /\ c \notin Admins
  /\ call[c].pc = "idle"
  /\ call' = [call EXCEPT ![c] = [IdleCall EXCEPT !.pc = "called", !.sessionId = sessionId]]
  /\ toast' = NoToast
  /\ UNCHANGED <<serverVars, pageVars>>

DirectReturn(c) ==
  /\ UNCHANGED <<historyVars, observerVars, joinVars>>
  /\ c \notin Admins
  /\ call[c].pc = "returning"
  /\ call' = [call EXCEPT ![c] = IdleCall]
  /\ toast' = NoToast
  /\ UNCHANGED <<serverVars, pageVars>>

\* ------------------------------------------------------ roster and clock
\* AddParticipantDialog: an admin adds one participant (a new document)
handleAddSingle(name) ==
  /\ UNCHANGED <<historyVars, observerVars, joinVars>>
  /\ nextParticipantId < MaxParticipants
  /\ roster' = Append(roster, [id |-> nextParticipantId + 1, name |-> name])
  /\ nextParticipantId' = nextParticipantId + 1
  /\ toast' = NoToast
  /\ UNCHANGED <<now, spinState, nextSpinId, draws, call, pageVars>>

Tick(d) ==
  /\ UNCHANGED <<historyVars, observerVars, joinVars>>
  /\ now + d <= MaxTime
  /\ now' = now + d
  /\ toast' = NoToast
  /\ UNCHANGED <<roster, nextParticipantId, spinState, nextSpinId, draws, call, pageVars>>

\* documents that lack a part of what spinWheel writes: the winner of an active
\* spin, the spinId, or the timestamp
MalformedRecords(id) ==
  LET rec == SpinRecord([id |-> 1, name |-> "Ann"], 0, 1, InitialSpinDuration, id)
  IN  {[rec EXCEPT !.winner = NoParticipant],
       [rec EXCEPT !.spinId = NoSpinId],
       [rec EXCEPT !.timestamp = NoTimestamp]}

\* spin_state/current is set by a writer other than spinWheel
MalformedWrite(rec) ==
  /\ UNCHANGED <<historyVars, observerVars, joinVars>>
  /\ nextSpinId < MaxSpins
  /\ rec \in MalformedRecords(nextSpinId + 1)
  /\ spinState' = rec
  /\ nextSpinId' = nextSpinId + 1
  /\ toast' = NoToast
  /\ UNCHANGED <<now, roster, nextParticipantId, draws, call, pageVars>>

\* ------------------------------------------- AdminSessionControl (page a)
\* participants listener
ParticipantsSnapshot(a) ==
  /\ UNCHANGED <<historyVars, observerVars, joinVars>>
  /\ participants[a] # roster
  /\ participants' = [participants EXCEPT ![a] = roster]
  /\ toast' = NoToast
  /\ UNCHANGED <<serverVars, call, isSpinning, wheelVars, showWinnerAnnouncement,
                 showConfetti, timers, confirm, confirming>>

\* the listener's copy of the record into the page state (both branches make it)
CopyRecord(a, spinData) ==
  /\ winner' = [winner EXCEPT ![a] = spinData.winner.name]
  /\ winnerParticipant' = [winnerParticipant EXCEPT ![a] = spinData.winner]
  /\ spinDuration' = [spinDuration EXCEPT ![a] = spinData.duration]
  /\ finalRotation' = [finalRotation EXCEPT ![a] = spinData.rotation]
  /\ lastProcessedSpinId' = [lastProcessedSpinId EXCEPT ![a] = spinData.spinId]

\* spin state listener: one delivery of the current document
SpinSnapshot(a) ==
  /\ UNCHANGED <<historyVars, observerVars, joinVars>>
  /\ spinState.exists
  /\ LET spinData == spinState
         isNewSpin == spinData.spinId # NoSpinId
                        /\ spinData.spinId # lastProcessedSpinId[a]
         isRecentSpin == spinData.timestamp # NoTimestamp
                        /\ (now - spinData.timestamp) < FreshnessWindowMs
     IN  IF isNewSpin /\ isRecentSpin
         THEN /\ isSpinning' = [isSpinning EXCEPT ![a] = spinData.isSpinning]
              /\ CopyRecord(a, spinData)
              /\ IF spinData.isSpinning
                 THEN /\ Len(timers[a]) < MaxTimers
                      /\ timers' = [timers EXCEPT ![a] = Append(@,
                           [due |-> now + spinData.duration + RevealMarginMs,
                            spinId |-> spinData.spinId])]
                 ELSE UNCHANGED timers
         ELSE IF lastProcessedSpinId[a] = NoSpinId /\ spinData.spinId # NoSpinId
         THEN /\ CopyRecord(a, spinData)
              /\ UNCHANGED <<isSpinning, timers>>
         ELSE UNCHANGED <<isSpinning, wheelVars, timers>>
  /\ toast' = NoToast
  /\ UNCHANGED <<serverVars, call, participants, showWinnerAnnouncement, showConfetti,
                 confirm, confirming>>

\* the reveal timer set by the listener fires
RevealTimer(a, k) ==
  /\ UNCHANGED <<historyVars, observerVars, joinVars>>
  /\ k \in 1..Len(timers[a])
  /\ now >= timers[a][k].due
  /\ timers' = [timers EXCEPT ![a] = RemoveAt(@, k)]
  /\ showConfetti' = [showConfetti EXCEPT ![a] = TRUE]
  /\ showWinnerAnnouncement' = [showWinnerAnnouncement EXCEPT ![a] = TRUE]
  /\ toast' = NoToast
  /\ UNCHANGED <<serverVars, call, participants, isSpinning, wheelVars, confirm, confirming>>

\* the Spin button
handleSpin(a) ==
  /\ UNCHANGED <<historyVars, observerVars, joinVars>>
  /\ IF participants[a] = <<>>
     THEN /\ toast' = Toast(a, "No participants to spin for!")
          /\ UNCHANGED <<serverVars, call, pageVars>>
     ELSE IF isSpinning[a]
     THEN /\ toast' = NoToast
          /\ UNCHANGED <<serverVars, call, pageVars>>
     ELSE /\ call[a].pc = "idle"
          /\ isSpinning' = [isSpinning EXCEPT ![a] = TRUE]
          /\ call' = [call EXCEPT ![a] =
               [IdleCall EXCEPT !.pc = "called", !.sessionId = Session]]
          /\ toast' = NoToast
          /\ UNCHANGED <<serverVars, participants, wheelVars, showWinnerAnnouncement,
                         showConfetti, timers, confirm, confirming>>

\* the awaited spinWheel call of handleSpin settles
handleSpinSettles(a) ==
  /\ UNCHANGED <<historyVars, observerVars, joinVars>>
  /\ call[a].pc = "returning"
  /\ call' = [call EXCEPT ![a] = IdleCall]
  /\ IF call[a].result.kind = "error"
     THEN /\ toast' = Toast(a, "Failed to spin")
          /\ isSpinning' = [isSpinning EXCEPT ![a] = FALSE]
     ELSE /\ toast' = NoToast
          /\ UNCHANGED isSpinning
  /\ UNCHANGED <<serverVars, participants, wheelVars, showWinnerAnnouncement,
                 showConfetti, timers, confirm, confirming>>

\* the trash icon and its confirmation dialog: one participant is deleted
handleRemoveParticipant(a, k) ==
  /\ UNCHANGED <<historyVars, observerVars, joinVars>>
  /\ k \in 1..Len(participants[a])
  /\ roster' = WithoutId(roster, participants[a][k].id)
  /\ toast' = Toast(a, "Removed")
  /\ UNCHANGED <<now, nextParticipantId, spinState, nextSpinId, draws, call, pageVars>>

\* the draws document processWinner adds; spinId is history, not a stored field:
\* it is the record the confirmed winner was copied from
DrawEntry(inv) ==
  [winner_participant_id |-> inv.winner.id, winner_name |-> inv.winner.name,
   is_re_spin |-> FALSE, spinId |-> inv.spinId]

\* "Clean up UI state immediately", the end of handleCloseWinnerAnnouncement
CleanUp(a) ==
  /\ showConfetti' = [showConfetti EXCEPT ![a] = FALSE]
  /\ isSpinning' = [isSpinning EXCEPT ![a] = FALSE]
  /\ winner' = [winner EXCEPT ![a] = ""]
  /\ winnerParticipant' = [winnerParticipant EXCEPT ![a] = NoParticipant]
  /\ UNCHANGED <<spinDuration, finalRotation, lastProcessedSpinId>>

\* handleCloseWinnerAnnouncement up to its first await: processWinner is entered
\* with the winner of the render the click came from
CloseWinnerAnnouncement(a) ==
  /\ UNCHANGED <<historyVars, observerVars, joinVars>>
  /\ showWinnerAnnouncement' = [showWinnerAnnouncement EXCEPT ![a] = FALSE]
  /\ IF winnerParticipant[a] = NoParticipant
     THEN UNCHANGED <<confirm, confirming>>
     ELSE /\ BagCardinality(confirm[a]) < MaxInvocations
          /\ confirm' = [confirm EXCEPT ![a] = @ (+) SetToBag({
               [pc |-> "addDoc", winner |-> winnerParticipant[a],
                spinId |-> lastProcessedSpinId[a]]})]
          /\ confirming' = confirming \cup {lastProcessedSpinId[a]}
  /\ toast' = NoToast
  /\ UNCHANGED <<serverVars, call, participants, isSpinning, wheelVars, showConfetti,
                 timers>>

\* Continue, or the open dialog dismissed
handleCloseWinnerAnnouncement(a) ==
  /\ showWinnerAnnouncement[a]
  /\ CloseWinnerAnnouncement(a)

\* the second click of a double-click: the dialog is closing, the handler of
\* the first click still awaits processWinner
handleCloseWinnerAnnouncementAgain(a) ==
  /\ ~showWinnerAnnouncement[a]
  /\ confirm[a] # EmptyBag
  /\ CloseWinnerAnnouncement(a)

\* processWinner: the draw is recorded, and the removal is requested
processWinnerAddDoc(a, inv) ==
  /\ UNCHANGED <<historyVars, observerVars, joinVars>>
  /\ BagIn(inv, confirm[a])
  /\ inv.pc = "addDoc"
  /\ draws' = Append(draws, DrawEntry(inv))
  /\ confirm' = [confirm EXCEPT ![a] =
       (@ (-) SetToBag({inv})) (+) SetToBag({[inv EXCEPT !.pc = "deleteDoc"]})]
  /\ toast' = NoToast
  /\ UNCHANGED <<now, roster, nextParticipantId, spinState, nextSpinId, call,
                 participants, isSpinning, wheelVars, showWinnerAnnouncement,
                 showConfetti, timers, confirming>>

\* processWinner deleting the document named by the winner's participant_id
\* field, which is no document of the collection
processWinnerDeleteDocByParticipantId(a, inv) ==
  /\ UNCHANGED <<historyVars, observerVars, joinVars>>
  /\ BagIn(inv, confirm[a])
  /\ inv.pc = "deleteDoc"
  /\ roster' = roster
  /\ confirm' = [confirm EXCEPT ![a] = @ (-) SetToBag({inv})]
  /\ toast' = Toast(a, "Winner")
  /\ CleanUp(a)
  /\ UNCHANGED <<now, nextParticipantId, spinState, nextSpinId, draws, call,
                 participants, showWinnerAnnouncement, timers, confirming>>

\* processWinner: the winner is removed from the participants; processWinner
\* resolves, handleCloseWinnerAnnouncement shows the success toast and cleans up
processWinnerDeleteDoc(a, inv) ==
  /\ UNCHANGED <<historyVars, observerVars, joinVars>>
  /\ BagIn(inv, confirm[a])
  /\ inv.pc = "deleteDoc"
  /\ roster' = WithoutId(roster, inv.winner.id)
  /\ confirm' = [confirm EXCEPT ![a] = @ (-) SetToBag({inv})]
  /\ toast' = Toast(a, "Winner")
  /\ CleanUp(a)
  /\ UNCHANGED <<now, nextParticipantId, spinState, nextSpinId, draws, call,
                 participants, showWinnerAnnouncement, timers, confirming>>

\* either write of processWinner is rejected: both catch blocks, then the clean-up
processWinnerFails(a, inv) ==
  /\ UNCHANGED <<historyVars, observerVars, joinVars>>
  /\ BagIn(inv, confirm[a])
  /\ toast' = Toast(a, "Failed to record winner")
  /\ CleanUp(a)
  /\ confirm' = [confirm EXCEPT ![a] = @ (-) SetToBag({inv})]
  /\ UNCHANGED <<serverVars, call, participants, showWinnerAnnouncement, timers, confirming>>

\* the admin reloads the page while no spinWheel call of the page is under way:
\* the component is mounted anew, its timers and pending handlers are gone
Reload(a) ==
  /\ UNCHANGED <<observerVars, joinVars>>
  /\ call[a].pc = "idle"
  /\ participants' = [participants EXCEPT ![a] = <<>>]
  /\ isSpinning' = [isSpinning EXCEPT ![a] = FALSE]
  /\ winner' = [winner EXCEPT ![a] = ""]
  /\ winnerParticipant' = [winnerParticipant EXCEPT ![a] = NoParticipant]
  /\ showWinnerAnnouncement' = [showWinnerAnnouncement EXCEPT ![a] = FALSE]
  /\ showConfetti' = [showConfetti EXCEPT ![a] = FALSE]
  /\ spinDuration' = [spinDuration EXCEPT ![a] = InitialSpinDuration]
  /\ finalRotation' = [finalRotation EXCEPT ![a] = 0]
  /\ lastProcessedSpinId' = [lastProcessedSpinId EXCEPT ![a] = NoSpinId]
  /\ timers' = [timers EXCEPT ![a] = <<>>]
  /\ confirm' = [confirm EXCEPT ![a] = EmptyBag]
  /\ historyDraws' = [historyDraws EXCEPT ![a] = <<>>]
  /\ respin' = [respin EXCEPT ![a] = IdleRespin]
  /\ toast' = NoToast
  /\ UNCHANGED <<serverVars, call, confirming>>

\* ------------------------------------------------- SpinHistory (page a)
\* loadDraws: the card reads the draws of the session
loadDraws(a) ==
  /\ UNCHANGED <<observerVars, joinVars>>
  /\ respin[a].pc = "idle"
  /\ historyDraws[a] # draws
  /\ historyDraws' = [historyDraws EXCEPT ![a] = draws]
  /\ toast' = NoToast
  /\ UNCHANGED <<serverVars, call, pageVars, respin>>

\* a sequence without the first occurrence of entry e
RECURSIVE WithoutDoc(_, _)
WithoutDoc(s, e) ==
  IF s = <<>> THEN <<>>
  ELSE IF Head(s) = e THEN Tail(s)
       ELSE <<Head(s)>> \o WithoutDoc(Tail(s), e)

\* the draws document handleRespin adds for the draw it supersedes
RespinEntry(draw) ==
  [winner_participant_id |-> 0, winner_name |-> draw.winner_name, is_re_spin |-> TRUE,
   spinId |-> draw.spinId]

\* handleRespin up to its first await: the winner is added back as a new participant
handleRespin(a, k) ==
  /\ UNCHANGED <<observerVars, joinVars>>
  /\ respin[a].pc = "idle"
  /\ k \in 1..Len(historyDraws[a])
  /\ nextParticipantId < MaxParticipants
  /\ roster' = Append(roster,
       [id |-> nextParticipantId + 1, name |-> historyDraws[a][k].winner_name])
  /\ nextParticipantId' = nextParticipantId + 1
  /\ respin' = [respin EXCEPT ![a] = [pc |-> "deleteDoc", draw |-> historyDraws[a][k]]]
  /\ toast' = NoToast
  /\ UNCHANGED <<now, spinState, nextSpinId, draws, call, pageVars, historyDraws>>

\* handleRespin: "Mark draw as re-spun", the draw's document is deleted
handleRespinDeleteDoc(a) ==
  /\ UNCHANGED <<observerVars, joinVars>>
  /\ respin[a].pc = "deleteDoc"
  /\ draws' = WithoutDoc(draws, respin[a].draw)
  /\ respin' = [respin EXCEPT ![a].pc = "addDoc"]
  /\ toast' = NoToast
  /\ UNCHANGED <<now, roster, nextParticipantId, spinState, nextSpinId, call, pageVars,
                 historyDraws>>

\* handleRespin: the re-spin is recorded, the toast shown and the draws reloaded
handleRespinAddDoc(a) ==
  /\ UNCHANGED <<observerVars, joinVars>>
  /\ respin[a].pc = "addDoc"
  /\ draws' = Append(draws, RespinEntry(respin[a].draw))
  /\ historyDraws' = [historyDraws EXCEPT ![a] = draws']
  /\ respin' = [respin EXCEPT ![a] = IdleRespin]
  /\ toast' = Toast(a, "re-spun")
  /\ UNCHANGED <<now, roster, nextParticipantId, spinState, nextSpinId, call, pageVars>>

\* a write of handleRespin is rejected: its catch
handleRespinFails(a) ==
  /\ UNCHANGED <<observerVars, joinVars>>
  /\ respin[a].pc \in {"deleteDoc", "addDoc"}
  /\ respin' = [respin EXCEPT ![a] = IdleRespin]
  /\ toast' = Toast(a, "Failed to re-spin")
  /\ UNCHANGED <<serverVars, call, pageVars, historyDraws>>

\* ------------------------------------------------------ Index (page o)
adminVars == <<call, pageVars, toast, historyVars>>

\* Date.now() on the observer's device
LocalNow(o) == now + clockSkew[o]

\* participants.findIndex(p => p.name === winner), 0-based, -1 if there is none
RECURSIVE FindIndex(_, _)
FindIndex(ps, name) ==
  IF ps = <<>> THEN -1
  ELSE IF Head(ps).name = name THEN 0
       ELSE LET rest == FindIndex(Tail(ps), name)
            IN  IF rest = -1 THEN -1 ELSE rest + 1

\* the angle the WheelSpinner turns to, computed from its own props
WheelTargetAngle(ps, winnerName) ==
  LET winnerIndex == FindIndex(ps, winnerName)
  IN  1800 + (360 - ((winnerIndex * 360) \div Len(ps)))

\* the transition duration of the WheelSpinner, in ms
WheelTransitionDuration(spinning) == IF spinning THEN 4000 ELSE 0

\* the effect of the WheelSpinner after the render of the page's new state:
\* while spinning it turns to its target angle
WheelSpinnerEffect(o) ==
  rotation' = [rotation EXCEPT ![o] =
    IF index'[o].isSpinning /\ index'[o].participants # <<>>
    THEN WheelTargetAngle(index'[o].participants, index'[o].winner)
    ELSE @]

\* the participants of a session; those of the session the pages are open on are
\* the roster, the other sessions have none
ParticipantsOf(sessionId) == IF sessionId = Session THEN roster ELSE <<>>

\* loadParticipants: one more participants listener, which nothing unsubscribes
loadParticipants(page, sessionId) ==
  [page EXCEPT !.subscriptions = Append(@, sessionId)]

\* the onJoin callback of the Index page, called by handleJoin with the session
\* and the participant it has added: the join is stored, and a page without an
\* active session loads the most recently created session
OnJoin(page, sessionId, p) ==
  LET joined == [page EXCEPT !.localStorage = @ \cup {sessionId}, !.joinedName = p.name,
                             !.participantId = p.id]
  IN  IF ~page.activeSession
      THEN IF sessions # <<>>
           THEN LET sessionData == sessions[Len(sessions)]
                IN  loadParticipants([joined EXCEPT !.activeSession = TRUE,
                                                    !.sessionId = sessionData.id],
                                     sessionData.id)
           ELSE joined
      ELSE loadParticipants(joined, page.sessionId)

\* onJoin after a join to the session of the pages whose modal is not followed
onJoin(o) ==
  /\ ~index[o].activeSession
  /\ Len(index[o].subscriptions) < MaxSubscriptions
  /\ index' = [index EXCEPT ![o] = OnJoin(@, Session, Visitor)]
  /\ UNCHANGED <<serverVars, adminVars, joinVars, clockSkew, listener, indexTimers, rotation>>

\* the participants listener that loadParticipants sets up
IndexParticipantsSnapshot(o) ==
  /\ \E k \in 1..Len(index[o].subscriptions) :
       LET updated == ParticipantsOf(index[o].subscriptions[k])
       IN  /\ index[o].participants # updated
           /\ index' = [index EXCEPT ![o].participants = updated]
  /\ UNCHANGED <<serverVars, adminVars, joinVars, clockSkew, listener, indexTimers>>
  /\ WheelSpinnerEffect(o)

\* the spin state effect runs for the render with a session: the previous
\* listener is unsubscribed, a new one captures the current lastProcessedSpinId
SubscribeSpinState(o) ==
  /\ index[o].activeSession
  /\ listener[o] # index[o].lastProcessedSpinId
  /\ listener' = [listener EXCEPT ![o] = index[o].lastProcessedSpinId]
  /\ UNCHANGED <<serverVars, adminVars, joinVars, clockSkew, index, indexTimers, rotation>>

\* what both branches of the listener copy from the record
IndexCopy(page, spinData) ==
  [page EXCEPT !.winner = spinData.winner.name, !.spinDuration = spinData.duration,
               !.finalRotation = spinData.rotation,
               !.lastProcessedSpinId = spinData.spinId]

\* spin state listener: the subscribed callback is called with the current document
IndexSpinSnapshot(o) ==
  /\ listener[o] # Unsubscribed
  \* the document of the session of the pages; the other sessions have none
  /\ index[o].sessionId = Session
  /\ spinState.exists
  /\ LET spinData == spinState
         capturedSpinId == listener[o]
         isNewSpin == spinData.spinId # NoSpinId
                        /\ spinData.spinId # capturedSpinId
         isRecentSpin == spinData.timestamp # NoTimestamp
                        /\ (LocalNow(o) - spinData.timestamp) < FreshnessWindowMs
     IN  IF isNewSpin /\ isRecentSpin
         THEN /\ index' = [index EXCEPT ![o] =
                   [IndexCopy(@, spinData) EXCEPT !.isSpinning = spinData.isSpinning]]
              /\ IF spinData.isSpinning
                 THEN /\ Len(indexTimers[o]) < MaxTimers
                      /\ indexTimers' = [indexTimers EXCEPT ![o] = Append(@,
                           [due |-> now + spinData.duration + RevealMarginMs,
                            spinId |-> spinData.spinId, winner |-> spinData.winner,
                            joinedName |-> index[o].joinedName])]
                 ELSE UNCHANGED indexTimers
         ELSE IF capturedSpinId = NoSpinId /\ spinData.spinId # NoSpinId
         THEN /\ index' = [index EXCEPT ![o] = IndexCopy(@, spinData)]
              /\ UNCHANGED indexTimers
         ELSE UNCHANGED <<index, indexTimers>>
  /\ UNCHANGED <<serverVars, adminVars, joinVars, clockSkew, listener>>
  /\ WheelSpinnerEffect(o)

\* the reveal timer set by the listener fires: the confetti is shown together
\* with the winner toast
IndexRevealTimer(o, k) ==
  /\ k \in 1..Len(indexTimers[o])
  /\ now >= indexTimers[o][k].due
  /\ indexTimers' = [indexTimers EXCEPT ![o] = RemoveAt(@, k)]
  /\ LET timer == indexTimers[o][k]
         isCurrentUserWinner == timer.winner.name = timer.joinedName
     IN  index' = [index EXCEPT ![o] =
           [@ EXCEPT !.showConfetti = TRUE,
                     !.toast = IF isCurrentUserWinner THEN YouWon
                               ELSE WinnerIs(timer.winner.name)]]
  /\ UNCHANGED <<serverVars, adminVars, joinVars, clockSkew, listener, rotation>>

\* 0-based index of the segment of a wheel of n segments that is under the
\* pointer when the wheel is turned by rot degrees: segment k is drawn from
\* k * segmentAngle to (k + 1) * segmentAngle, clockwise from the pointer
SegmentUnderPointer(rot, n) ==
  LET atPointer == (360 - (rot % 360)) % 360
  IN  (atPointer * n) \div 360

\* Leave Session, confirmed: the page state is reset, the effect's clean-up
\* unsubscribes the spin state listener
confirmLeaveSession(o) ==
  /\ index[o].activeSession
  /\ index' = [index EXCEPT ![o] =
       [@ EXCEPT !.localStorage = @ \ {index[o].sessionId}, !.joinedName = "",
                 !.participantId = 0, !.activeSession = FALSE, !.sessionId = NoSession,
                 !.participants = <<>>, !.winner = "",
                 !.isSpinning = FALSE, !.showConfetti = FALSE,
                 !.lastProcessedSpinId = NoSpinId, !.toast = LeftSession]]
  /\ listener' = [listener EXCEPT ![o] = Unsubscribed]
  /\ UNCHANGED <<serverVars, adminVars, joinVars, clockSkew, indexTimers, rotation>>

\* the page is loaded anew, its listeners and timers are gone; its mount effect
\* checkForJoinedSession loads the most recently created session if the
\* browser has a joined_ key for it
checkForJoinedSession(o) ==
  /\ LET mounted == [FreshIndex EXCEPT !.localStorage = index[o].localStorage]
         sessionData == sessions[Len(sessions)]
     IN  index' = [index EXCEPT ![o] =
           IF sessions # <<>> /\ sessionData.id \in index[o].localStorage
           THEN loadParticipants([mounted EXCEPT !.activeSession = TRUE,
                                                 !.sessionId = sessionData.id],
                                 sessionData.id)
           ELSE mounted]
  /\ listener' = [listener EXCEPT ![o] = Unsubscribed]
  /\ indexTimers' = [indexTimers EXCEPT ![o] = <<>>]
  /\ rotation' = [rotation EXCEPT ![o] = 0]
  /\ UNCHANGED <<serverVars, adminVars, joinVars, clockSkew>>

\* ------------------------------------------------ session code utilities
characters == "ABCDEFGHJKLMNPQRSTUVWXYZ23456789"
UpperCaseLetters == "ABCDEFGHIJKLMNOPQRSTUVWXYZ"
LowerCaseLetters == "abcdefghijklmnopqrstuvwxyz"
Digits == "0123456789"

CharAt(str, i) == SubSeq(str, i + 1, i + 1)
Chars(str) == {SubSeq(str, k, k) : k \in 1..Len(str)}
LowerCaseChars == Chars(LowerCaseLetters)
\* the characters /[A-Z0-9]/ matches
AlphanumericChars == Chars(UpperCaseLetters) \cup Chars(Digits)

\* the six characters drawn for the indexes r[1], ..., r[6]
RECURSIVE generateSessionCodeFrom(_, _)
generateSessionCodeFrom(r, i) ==
  IF i > 6 THEN "" ELSE CharAt(characters, r[i]) \o generateSessionCodeFrom(r, i + 1)

generateSessionCode(r) == generateSessionCodeFrom(r, 1)

\* String.prototype.toUpperCase on the characters of the typed codes
ToUpperCaseChar(c) ==
  IF c \in LowerCaseChars
  THEN CharAt(UpperCaseLetters,
              (CHOOSE k \in 1..26 : SubSeq(LowerCaseLetters, k, k) = c) - 1)
  ELSE c

RECURSIVE ToUpperCase(_)
ToUpperCase(str) ==
  IF str = "" THEN ""
  ELSE ToUpperCaseChar(SubSeq(str, 1, 1)) \o ToUpperCase(SubSeq(str, 2, Len(str)))

\* replace(/[^A-Z0-9]/g, '')
RECURSIVE RemoveNonAlphanumeric(_)
RemoveNonAlphanumeric(str) ==
  IF str = "" THEN ""
  ELSE LET c == SubSeq(str, 1, 1)
           rest == RemoveNonAlphanumeric(SubSeq(str, 2, Len(str)))
       IN  IF c \in AlphanumericChars THEN c \o rest ELSE rest

\* slice(0, 6)
Slice6(str) == IF Len(str) > 6 THEN SubSeq(str, 1, 6) ELSE str

\* formatSessionCode without its slice(0, 6)
formatSessionCodeWithoutSlice(str) == RemoveNonAlphanumeric(ToUpperCase(str))

formatSessionCode(str) == Slice6(RemoveNonAlphanumeric(ToUpperCase(str)))

\* String.prototype.trim, for blanks
RECURSIVE Trim(_)
Trim(str) ==
  IF str = "" THEN ""
  ELSE IF SubSeq(str, 1, 1) = " " THEN Trim(SubSeq(str, 2, Len(str)))
  ELSE IF SubSeq(str, Len(str), Len(str)) = " " THEN Trim(SubSeq(str, 1, Len(str) - 1))
  ELSE str

StartsWith(str, prefix) ==
  Len(str) >= Len(prefix) /\ SubSeq(str, 1, Len(prefix)) = prefix

\* ------------------------------------------- session creation and joining

\* handleCreateSession of the admin dashboard: the session gets its code
handleCreateSession(r) ==
  /\ Len(sessions) < MaxSessions
  /\ LET code == generateSessionCode(r)
     IN  sessions' = Append(sessions, [id |-> SessionIds[Len(sessions) + 1], code |-> code])
  /\ toast' = NoToast
  /\ UNCHANGED <<serverVars, call, pageVars, historyVars, observerVars, join, authVars>>

\* handleJoin up to its first await: the form is checked and the code formatted
handleJoin(j, sessionCode, participantName) ==
  /\ join[j].pc = "idle"
  \* the page offers "Join Session" to a visitor who has not joined
  /\ j \in PageModals => ~index[PageOf(j)].activeSession
  /\ sessionCode # "" /\ participantName # ""
  /\ LET formattedCode == formatSessionCode(sessionCode)
     IN  join' = [join EXCEPT ![j] =
           IF Len(formattedCode) # 6
           THEN [IdleJoin EXCEPT !.formattedCode = formattedCode,
                                 !.result = "Session code must be 6 characters"]
           ELSE [IdleJoin EXCEPT !.pc = "sessionQuery", !.formattedCode = formattedCode,
                                 !.participantName = participantName]]
  /\ toast' = NoToast
  /\ UNCHANGED <<serverVars, call, pageVars, historyVars, observerVars, sessions, authVars>>

\* the session is looked up by its code
handleJoinSessionQuery(j) ==
  /\ join[j].pc = "sessionQuery"
  /\ LET found == {k \in 1..Len(sessions) : sessions[k].code = join[j].formattedCode}
     IN  IF found = {}
         THEN join' = [join EXCEPT ![j] =
                [@ EXCEPT !.pc = "idle",
                          !.result = "Invalid session code or session not found"]]
         \* sessionSnapshot.docs[0]: the query has no order, any match can be first
         ELSE \E k \in found :
                join' = [join EXCEPT ![j] =
                  [@ EXCEPT !.pc = "participantsQuery", !.sessionId = sessions[k].id]]
  /\ toast' = NoToast
  /\ UNCHANGED <<serverVars, call, pageVars, historyVars, observerVars, sessions, authVars>>

\* the participants of the session are fetched for the duplicate check
handleJoinParticipantsQuery(j) ==
  /\ join[j].pc = "participantsQuery"
  /\ join' = [join EXCEPT ![j] =
       [@ EXCEPT !.pc = "addDoc", !.existingParticipants = ParticipantsOf(join[j].sessionId)]]
  /\ toast' = NoToast
  /\ UNCHANGED <<serverVars, call, pageVars, historyVars, observerVars, sessions, authVars>>

\* the name the participant is stored under
FinalName(participantName, existingParticipants) ==
  LET finalName == Trim(participantName)
      duplicateCount == Cardinality({k \in 1..Len(existingParticipants) :
                                       StartsWith(existingParticipants[k].name, finalName)})
  IN  IF duplicateCount > 0
      THEN finalName \o " (" \o ToString(duplicateCount + 1) \o ")"
      ELSE finalName

\* the participant document is added
handleJoinAddDoc(j) ==
  /\ join[j].pc = "addDoc"
  /\ nextParticipantId < MaxJoins
  /\ LET doc == [id |-> nextParticipantId + 1,
                 name |-> FinalName(join[j].participantName, join[j].existingParticipants)]
     IN  /\ roster' = IF join[j].sessionId = Session THEN Append(roster, doc) ELSE roster
         \* onJoin(session.id, finalName)
         /\ IF j \in PageModals
            THEN /\ Len(index[PageOf(j)].subscriptions) < MaxSubscriptions
                 /\ index' = [index EXCEPT ![PageOf(j)] = OnJoin(@, join[j].sessionId, doc)]
            ELSE UNCHANGED index
  /\ nextParticipantId' = nextParticipantId + 1
  /\ join' = [join EXCEPT ![j] = [@ EXCEPT !.pc = "idle", !.existingParticipants = <<>>,
                                            !.result = "Joined"]]
  /\ toast' = NoToast
  /\ UNCHANGED <<now, spinState, nextSpinId, draws, call, pageVars, historyVars,
                 listener, indexTimers, rotation, clockSkew, sessions, authVars>>

\* one of the awaited calls throws: the error is shown, nothing is stored
handleJoinFails(j) ==
  /\ join[j].pc \in {"sessionQuery", "participantsQuery", "addDoc"}
  /\ join' = [join EXCEPT ![j] = [@ EXCEPT !.pc = "idle", !.existingParticipants = <<>>,
                                            !.result = "Error"]]
  /\ toast' = NoToast
  /\ UNCHANGED <<serverVars, call, pageVars, historyVars, observerVars, sessions, authVars>>

\* ----------------------------------------------------------- AuthProvider
authRest == <<serverVars, call, pageVars, historyVars, observerVars, sessions, join>>

GetDoc(u) == [op |-> "getDoc", uid |-> u, role |-> ""]
SetDoc(u, r) == [op |-> "setDoc", uid |-> u, role |-> r]

\* the onAuthStateChanged callback for a user, up to its await of checkAdminStatus
AuthStateChanged(currentUser) ==
  authProvider' = [authProvider EXCEPT !.user = currentUser, !.adminLoading = TRUE]

\* the first auth state of a browser without a session: no user
onAuthStateChangedNoUser ==
  /\ authProvider = MountedAuthProvider
  /\ authCalls = EmptyBag
  /\ authProvider' = [authProvider EXCEPT !.loading = FALSE]
  /\ toast' = NoToast
  /\ UNCHANGED <<authRest, userRoles, authCalls>>

\* signIn of an existing account: the auth state changes, the callback starts
\* its lookup of the role
signIn(u) ==
  /\ userRoles[u] # "absent"
  /\ authProvider.user # u
  /\ BagCardinality(authCalls) < MaxAuthCalls
  /\ AuthStateChanged(u)
  /\ authCalls' = authCalls (+) SetToBag({GetDoc(u)})
  /\ toast' = NoToast
  /\ UNCHANGED <<authRest, userRoles>>

\* signUp: the account is created, which signs the user in, and the role
\* document is then written
signUp(u, withAdminCode) ==
  /\ userRoles[u] = "absent"
  /\ BagCardinality(authCalls) + 1 < MaxAuthCalls
  /\ userRoles' = [userRoles EXCEPT ![u] = "none"]
  /\ AuthStateChanged(u)
  /\ authCalls' = authCalls (+) SetToBag({GetDoc(u)})
                            (+) SetToBag({SetDoc(u, IF withAdminCode THEN "admin" ELSE "user")})
  /\ toast' = NoToast
  /\ UNCHANGED authRest

\* the setDoc of signUp is made
signUpSetDoc(c) ==
  /\ BagIn(c, authCalls)
  /\ c.op = "setDoc"
  /\ userRoles' = [userRoles EXCEPT ![c.uid] = c.role]
  /\ authCalls' = authCalls (-) SetToBag({c})
  /\ toast' = NoToast
  /\ UNCHANGED <<authRest, authProvider>>

\* checkAdminStatus: the getDoc resolves, isAdmin is set from the document, and
\* the callback goes on after its await
checkAdminStatus(c) ==
  /\ BagIn(c, authCalls)
  /\ c.op = "getDoc"
  /\ authProvider' = [authProvider EXCEPT !.isAdmin = (userRoles[c.uid] = "admin"),
                                          !.adminLoading = FALSE, !.loading = FALSE]
  /\ authCalls' = authCalls (-) SetToBag({c})
  /\ toast' = NoToast
  /\ UNCHANGED <<authRest, userRoles>>

\* checkAdminStatus: the getDoc is rejected
checkAdminStatusFails(c) ==
  /\ BagIn(c, authCalls)
  /\ c.op = "getDoc"
  /\ authProvider' = [authProvider EXCEPT !.isAdmin = FALSE,
                                          !.adminLoading = FALSE, !.loading = FALSE]
  /\ authCalls' = authCalls (-) SetToBag({c})
  /\ toast' = NoToast
  /\ UNCHANGED <<authRest, userRoles>>

\* signOut, together with the onAuthStateChanged callback for no user
signOut ==
  /\ authProvider.user # NoUser
  /\ authProvider' = [authProvider EXCEPT !.user = NoUser, !.isAdmin = FALSE,
                                          !.adminLoading = FALSE, !.loading = FALSE]
  /\ toast' = NoToast
  /\ UNCHANGED <<authRest, userRoles, authCalls>>

\* ------------------------------------------------------- specification
\* the session as created, with the pages as mounted
\* everything but the roster
InitPages ==
  /\ now = 0
  /\ spinState = NoDoc
  /\ nextSpinId = 0
  /\ draws = <<>>
  /\ call = [c \in Callers |-> IdleCall]
  /\ participants = [a \in Admins |-> <<>>]
  /\ isSpinning = [a \in Admins |-> FALSE]
  /\ winner = [a \in Admins |-> ""]
  /\ winnerParticipant = [a \in Admins |-> NoParticipant]
  /\ showWinnerAnnouncement = [a \in Admins |-> FALSE]
  /\ showConfetti = [a \in Admins |-> FALSE]
  /\ spinDuration = [a \in Admins |-> InitialSpinDuration]
  /\ finalRotation = [a \in Admins |-> 0]
  /\ lastProcessedSpinId = [a \in Admins |-> NoSpinId]
  /\ timers = [a \in Admins |-> <<>>]
  /\ confirm = [a \in Admins |-> EmptyBag]
  /\ toast = NoToast
  /\ confirming = {}
  /\ historyDraws = [a \in Admins |-> <<>>]
  /\ respin = [a \in Admins |-> IdleRespin]
  /\ index = [o \in Observers |-> FreshIndex]
  /\ listener = [o \in Observers |-> Unsubscribed]
  /\ indexTimers = [o \in Observers |-> <<>>]
  /\ rotation = [o \in Observers |-> 0]
  /\ join = [j \in Joiners \cup PageModals |-> IdleJoin]
  /\ userRoles = [u \in Users |-> IF u = "u1" THEN "admin" ELSE "absent"]
  /\ authProvider = MountedAuthProvider
  /\ authCalls = EmptyBag

\* the code of the session the pages are open on
SessionCode == generateSessionCode([i \in 1..6 |-> 0])

\* a session without participants
InitSession ==
  /\ roster = <<>>
  /\ nextParticipantId = 0
  /\ sessions = <<[id |-> Session, code |-> SessionCode]>>
  /\ InitPages

\* every device clock agrees with the server's
Init ==
  /\ InitSession
  /\ clockSkew = [o \in Observers |-> 0]

\* the device clocks of the observers are off by any of the skews
ObserverInit ==
  /\ InitSession
  /\ clockSkew \in [Observers -> ClockSkews]

\* a session whose roster already has n participants, joined in this order
RosterOf(n) == [k \in 1..n |-> [id |-> k, name |-> RosterNames[k]]]

RotationInit ==
  /\ \E n \in RosterSizes : roster = RosterOf(n) /\ nextParticipantId = n
  /\ sessions = <<[id |-> Session, code |-> SessionCode]>>
  /\ InitPages
  /\ clockSkew = [o \in Observers |-> 0]

SpinWheelNext ==
  \/ \E c \in Callers : SpinWheelFetch(c)
  \/ \E c \in Callers : SpinWheelWrite(c)
  \/ \E c \in Callers : SpinWheelWriteFails(c)

EnvironmentNext ==
  \/ \E n \in Names : handleAddSingle(n)
  \/ \E d \in TickSteps : Tick(d)

PageNext ==
  \/ \E a \in Admins : ParticipantsSnapshot(a)
  \/ \E a \in Admins : SpinSnapshot(a)
  \/ \E a \in Admins, k \in 1..MaxTimers : RevealTimer(a, k)
  \/ \E a \in Admins : handleSpin(a)
  \/ \E a \in Admins : handleSpinSettles(a)
  \/ \E a \in Admins, k \in 1..MaxParticipants : handleRemoveParticipant(a, k)
  \/ \E a \in Admins : handleCloseWinnerAnnouncement(a)
  \/ \E a \in Admins : handleCloseWinnerAnnouncementAgain(a)
  \/ \E a \in Admins : \E inv \in BagToSet(confirm[a]) : processWinnerAddDoc(a, inv)
  \/ \E a \in Admins : \E inv \in BagToSet(confirm[a]) : processWinnerDeleteDoc(a, inv)
  \/ \E a \in Admins : \E inv \in BagToSet(confirm[a]) : processWinnerFails(a, inv)

HistoryNext ==
  \/ \E a \in Admins : loadDraws(a)
  \/ \E a \in Admins, k \in 1..MaxSpins : handleRespin(a, k)
  \/ \E a \in Admins : handleRespinDeleteDoc(a)
  \/ \E a \in Admins : handleRespinAddDoc(a)
  \/ \E a \in Admins : handleRespinFails(a)

\* the session with one admin page open
Next ==
  \/ SpinWheelNext
  \/ EnvironmentNext
  \/ PageNext

Spec == Init /\ [][Next]_vars

\* the admin page's way to a recorded draw: a spin, its reveal and its confirmation
DrawNext ==
  \/ \E a \in Admins : ParticipantsSnapshot(a)
  \/ \E a \in Admins : SpinSnapshot(a)
  \/ \E a \in Admins, k \in 1..MaxTimers : RevealTimer(a, k)
  \/ \E a \in Admins : handleSpin(a)
  \/ \E a \in Admins : handleSpinSettles(a)
  \/ \E a \in Admins : handleCloseWinnerAnnouncement(a)
  \/ \E a \in Admins : \E inv \in BagToSet(confirm[a]) : processWinnerAddDoc(a, inv)
  \/ \E a \in Admins : \E inv \in BagToSet(confirm[a]) : processWinnerDeleteDoc(a, inv)

\* the recorded draws of the admin page together with the re-spin of its SpinHistory card
RespinNext ==
  \/ \E c \in Callers : SpinWheelFetch(c)
  \/ \E c \in Callers : SpinWheelWrite(c)
  \/ EnvironmentNext
  \/ DrawNext
  \/ HistoryNext

SpecHistory == Init /\ [][RespinNext]_vars

\* the admin page with reloads, every dialog confirmed by a single click
ReloadNext ==
  \/ \E c \in Callers : SpinWheelFetch(c)
  \/ \E c \in Callers : SpinWheelWrite(c)
  \/ EnvironmentNext
  \/ DrawNext
  \/ \E a \in Admins : Reload(a)

SpecReload == Init /\ [][ReloadNext]_vars

\* a write of a pending winner confirmation is made, or is rejected
processWinnerSettles ==
  \E a \in Admins : \E inv \in BagToSet(confirm[a]) :
    \/ processWinnerAddDoc(a, inv)
    \/ processWinnerDeleteDoc(a, inv)
    \/ processWinnerFails(a, inv)

ConfirmLiveNext ==
  \/ \E c \in Callers : SpinWheelFetch(c)
  \/ \E c \in Callers : SpinWheelWrite(c)
  \/ EnvironmentNext
  \/ DrawNext
  \/ \E a \in Admins : \E inv \in BagToSet(confirm[a]) : processWinnerFails(a, inv)

\* every awaited write of a confirmation settles; the admin acts when they like
SpecConfirmLive ==
  /\ Init
  /\ [][ConfirmLiveNext]_vars
  /\ WF_vars(processWinnerSettles)

\* what follows a click of the admin without another: the callable runs and
\* returns, the listener and the timers are called, the writes settle
SpinAutomatic ==
  \/ \E c \in Admins : SpinWheelFetch(c)
  \/ \E c \in Admins : SpinWheelWrite(c)
  \/ \E a \in Admins : handleSpinSettles(a)
  \/ \E a \in Admins : ParticipantsSnapshot(a)
  \/ \E a \in Admins : SpinSnapshot(a)
  \/ \E a \in Admins, k \in 1..MaxTimers : RevealTimer(a, k)
  \/ \E a \in Admins : \E inv \in BagToSet(confirm[a]) : processWinnerAddDoc(a, inv)
  \/ \E a \in Admins : \E inv \in BagToSet(confirm[a]) : processWinnerDeleteDoc(a, inv)

\* the admin spins, as often as spin ids last, and the callable answers within
\* one step of the clock
SpinLiveNext ==
  \/ \E n \in Names : handleAddSingle(n)
  \/ \E d \in TickSteps : (\A a \in Admins : call[a].pc = "idle") /\ Tick(d)
  \/ \E a \in Admins : nextSpinId < MaxSpins /\ handleSpin(a)
  \/ \E a \in Admins : handleCloseWinnerAnnouncement(a)
  \/ SpinAutomatic

\* the page's own steps are taken and time passes; the admin acts when they like
SpecSpinLive ==
  /\ Init
  /\ [][SpinLiveNext]_vars
  /\ WF_vars(SpinAutomatic)
  /\ WF_vars(\E d \in TickSteps : (\A a \in Admins : call[a].pc = "idle") /\ Tick(d))

\* the admin page as an observer of spins that a second admin starts
OverlapNext ==
  \/ DirectCall("a2", Session)
  \/ DirectReturn("a2")
  \/ SpinWheelNext
  \/ \E n \in Names : handleAddSingle(n)
  \/ \E t \in RevealInstants : t > now /\ Tick(t - now)
  \/ \E a \in Admins : ParticipantsSnapshot(a)
  \/ \E a \in Admins : SpinSnapshot(a)
  \/ \E a \in Admins, k \in 1..MaxTimers : RevealTimer(a, k)

SpecOverlap == Init /\ [][OverlapNext]_vars

\* the admin page's listener fed with malformed documents
MalformedNext ==
  \/ \E rec \in MalformedRecords(nextSpinId + 1) : MalformedWrite(rec)
  \/ EnvironmentNext
  \/ \E a \in Admins : ParticipantsSnapshot(a)
  \/ \E a \in Admins : SpinSnapshot(a)
  \/ \E a \in Admins, k \in 1..MaxTimers : RevealTimer(a, k)
  \/ \E a \in Admins : handleCloseWinnerAnnouncement(a)

SpecMalformed == Init /\ [][MalformedNext]_vars

\* a session with participants whose admin removes some of them
WheelInit ==
  /\ \E n \in WheelRosterSizes : roster = RosterOf(n) /\ nextParticipantId = n
  /\ sessions = <<[id |-> Session, code |-> SessionCode]>>
  /\ InitPages
  /\ clockSkew = [o \in Observers |-> 0]

\* an observer's wheel while the roster changes
WheelNext ==
  \/ DirectCall("a2", Session)
  \/ DirectReturn("a2")
  \/ \E c \in Callers : SpinWheelFetch(c)
  \/ \E c \in Callers : SpinWheelWrite(c)
  \/ \E a \in Admins : ParticipantsSnapshot(a)
  \/ \E a \in Admins : \E k \in 1..Len(participants[a]) : handleRemoveParticipant(a, k)
  \/ \E o \in Observers : onJoin(o)
  \/ \E o \in Observers : IndexParticipantsSnapshot(o)
  \/ \E o \in Observers : SubscribeSpinState(o)
  \/ \E o \in Observers : IndexSpinSnapshot(o)

SpecWheel == WheelInit /\ [][WheelNext]_vars

\* the Index page of a visitor who joins once
IndexNext ==
  \/ \E o \in Observers : index[o].subscriptions = <<>> /\ onJoin(o)
  \/ \E o \in Observers : IndexParticipantsSnapshot(o)
  \/ \E o \in Observers : SubscribeSpinState(o)
  \/ \E o \in Observers : IndexSpinSnapshot(o)
  \/ \E o \in Observers, k \in 1..MaxTimers : IndexRevealTimer(o, k)
  \/ \E o \in Observers : confirmLeaveSession(o)

\* the spins an admin publishes, watched from the Index pages of the observers
ObserverNext ==
  \/ DirectCall("a2", Session)
  \/ DirectReturn("a2")
  \/ SpinWheelNext
  \/ \E n \in Names : handleAddSingle(n)
  \/ \E t \in ObserverInstants : t > now /\ Tick(t - now)
  \/ IndexNext

SpecObserver == ObserverInit /\ [][ObserverNext]_vars

\* what an Index page does by itself: its listeners, its effect, its timers
IndexAutomatic ==
  \E o \in Observers :
    \/ IndexParticipantsSnapshot(o)
    \/ SubscribeSpinState(o)
    \/ IndexSpinSnapshot(o)
    \/ \E k \in 1..MaxTimers : IndexRevealTimer(o, k)

ObserverLiveNext ==
  \/ DirectCall("a2", Session)
  \/ DirectReturn("a2")
  \/ \E c \in Callers : SpinWheelFetch(c)
  \/ \E c \in Callers : SpinWheelWrite(c)
  \/ EnvironmentNext
  \/ IndexNext

\* time passes and the page's own steps are taken; the visitor and the admins
\* act when they like
SpecObserverLive ==
  /\ Init
  /\ [][ObserverLiveNext]_vars
  /\ WF_vars(IndexAutomatic)
  /\ WF_vars(\E d \in TickSteps : Tick(d))

\* the callable function alone, under every caller that can reach it
CoordinatorNext ==
  \/ SpinWheelNext
  \/ EnvironmentNext
  \/ \E c \in Callers, sid \in {Session, NoSession} : DirectCall(c, sid)
  \/ \E c \in Callers : DirectReturn(c)

SpecCoordinator == Init /\ [][CoordinatorNext]_vars

\* spinWheel called for sessions of every roster size
RotationNext ==
  \/ DirectCall("a2", Session)
  \/ SpinWheelNext
  \/ DirectReturn("a2")

SpecRotation == RotationInit /\ [][RotationNext]_vars

\* the session is not created yet
CodeInit ==
  /\ roster = <<>>
  /\ nextParticipantId = 0
  /\ sessions = <<>>
  /\ InitPages
  /\ clockSkew = [o \in Observers |-> 0]

\* one session is created and visitors enter codes
CodeNext ==
  \/ \E r \in [1..6 -> RandomIndexes] : sessions = <<>> /\ handleCreateSession(r)
  \/ \E j \in Joiners, c \in TypedCodes, n \in TypedNames : handleJoin(j, c, n)
  \/ \E j \in Joiners : handleJoinSessionQuery(j)
  \/ \E j \in Joiners : handleJoinFails(j)

SpecCode == CodeInit /\ [][CodeNext]_vars

\* visitors join the session and the admin removes participants
JoinNext ==
  \/ \E j \in Joiners, n \in TypedNames : handleJoin(j, "aaaaaa", n)
  \/ \E j \in Joiners : handleJoinSessionQuery(j)
  \/ \E j \in Joiners : handleJoinParticipantsQuery(j)
  \/ \E j \in Joiners : handleJoinAddDoc(j)
  \/ \E j \in Joiners : handleJoinFails(j)
  \/ \E a \in Admins : ParticipantsSnapshot(a)
  \/ \E a \in Admins : \E k \in 1..MaxJoins : handleRemoveParticipant(a, k)

SpecJoin == Init /\ [][JoinNext]_vars

\* the sessions of a dashboard and the visitors who join them by code
SessionsNext ==
  \/ \E r \in SessionDraws : handleCreateSession(r)
  \/ \E j \in Joiners, c \in {"aaaaaa", "222-222"}, n \in Names : handleJoin(j, c, n)
  \/ \E j \in Joiners : handleJoinSessionQuery(j)
  \/ \E j \in Joiners : handleJoinFails(j)

SpecSessions == CodeInit /\ [][SessionsNext]_vars

\* the modal of the followed page: a visitor joins a session by its code
ModalNext ==
  \/ \E j \in PageModals, c \in {"aaaaaa", "222222"}, n \in Names : handleJoin(j, c, n)
  \/ \E j \in PageModals : handleJoinSessionQuery(j)
  \/ \E j \in PageModals : handleJoinParticipantsQuery(j)
  \/ \E j \in PageModals : handleJoinAddDoc(j)
  \/ \E j \in PageModals : handleJoinFails(j)

\* a visitor who joins, leaves and reloads while the admin creates a second session
VisitorNext ==
  \/ handleCreateSession([i \in 1..6 |-> 24])
  \/ ModalNext
  \/ \E n \in Names : handleAddSingle(n)
  \/ \E o \in Observers : IndexParticipantsSnapshot(o)
  \/ \E o \in Observers : confirmLeaveSession(o)
  \/ \E o \in Observers : checkForJoinedSession(o)

SpecVisitor == Init /\ [][VisitorNext]_vars

\* a visitor who joins and watches the spins of the session
WinnerToastNext ==
  \/ ModalNext
  \/ \E n \in Names : handleAddSingle(n)
  \/ DirectCall("a2", Session)
  \/ DirectReturn("a2")
  \/ \E c \in Callers : SpinWheelFetch(c)
  \/ \E c \in Callers : SpinWheelWrite(c)
  \/ \E d \in TickSteps : Tick(d)
  \/ \E o \in Observers : SubscribeSpinState(o)
  \/ \E o \in Observers : IndexSpinSnapshot(o)
  \/ \E o \in Observers, k \in 1..MaxTimers : IndexRevealTimer(o, k)

SpecWinnerToast == Init /\ [][WinnerToastNext]_vars

\* the AuthProvider of one browser whose user signs up, in and out
AuthNext ==
  \/ onAuthStateChangedNoUser
  \/ \E u \in Users : signIn(u)
  \/ \E u \in Users, withAdminCode \in BOOLEAN : signUp(u, withAdminCode)
  \/ \E c \in BagToSet(authCalls) : signUpSetDoc(c)
  \/ \E c \in BagToSet(authCalls) : checkAdminStatus(c)
  \/ \E c \in BagToSet(authCalls) : checkAdminStatusFails(c)
  \/ signOut

SpecAuth == Init /\ [][AuthNext]_vars

\* ------------------------------------------------------------ properties
ActiveRecord == spinState.exists /\ spinState.isSpinning

\* C1: a spinWheel call that completes while the record is active fails and
\* leaves the record unchanged, so an active record is never overwritten by a
\* second spin; stated for privileged callers alone, the claim makes it of all
C1_ActiveRecordNotOverwritten ==
  [][\A c \in Privileged :
       (ActiveRecord /\ call[c].pc = "fetched" /\ call'[c].pc = "returning")
         => (call'[c].result.kind = "error" /\ spinState' = spinState)]_vars

\* C2: a spinWheel call of a caller who is not privileged ends in an error and
\* writes nothing to spin_state
C2_UnprivilegedCallerRejected ==
  [][\A c \in Callers \ Privileged :
       (call[c].pc # "returning" /\ call'[c].pc = "returning")
         => (call'[c].result.kind = "error" /\ spinState' = spinState)]_vars

\* C3: with an empty roster at fetch time spinWheel fails with the precondition
\* error and does not touch spin_state, and no record is ever written for an
\* empty roster; handleSpin with an empty participant list shows the error,
\* makes no call and leaves isSpinning as it was; a call that failed leaves
\* isSpinning false when it settles
C3_EmptyRoster ==
  [][/\ \A c \in Callers :
          (call[c].pc = "called" /\ call[c].sessionId # NoSession /\ roster = <<>>
             /\ call'[c] # call[c])
            => /\ call'[c].pc = "returning"
               /\ call'[c].result = HttpsError("failed-precondition")
               /\ spinState' = spinState
     /\ spinState' # spinState => spinState'.participantCount >= 1
     /\ \A a \in Admins :
          /\ (call[a].pc = "idle" /\ call'[a].pc # "idle") => participants[a] # <<>>
          /\ toast'[a] = "No participants to spin for!"
               => /\ participants[a] = <<>>
                  /\ UNCHANGED <<call, isSpinning, spinState>>
          /\ (call[a].pc = "returning" /\ call[a].result.kind = "error"
                /\ call'[a].pc = "idle")
               => ~isSpinning'[a]]_vars

\* C3 witness: the page's spinWheel call has failed on the empty server roster,
\* and its handleSpin has just refused to spin an empty participant list
C3_Witness ==
  \E a \in Admins :
    /\ call[a].pc = "returning"
    /\ call[a].result = HttpsError("failed-precondition")
    /\ ~spinState.exists
    /\ toast[a] = "No participants to spin for!"

\* C4: a record is never replaced by a spin published less than the cooldown
\* after it
C4_CooldownBetweenSpins ==
  [][(spinState.exists /\ spinState'.spinId # spinState.spinId)
       => spinState'.timestamp - spinState.timestamp >= CooldownMs]_vars

\* C5: the payload a successful spinWheel returns has the winner, rotation and
\* duration of the record it has just written, and carries that record's spinId
C5_ReturnsPublishedPayload ==
  [][\A c \in Callers :
       (call[c].pc = "fetched" /\ call'[c].pc = "returning"
          /\ call'[c].result.kind = "ok")
         => /\ call'[c].result.winner = spinState'.winner
            /\ call'[c].result.rotation = spinState'.rotation
            /\ call'[c].result.duration = spinState'.duration
            /\ "spinId" \in DOMAIN call'[c].result
            /\ call'[c].result.spinId = spinState'.spinId]_vars

\* the draws entries recorded for spin s
DrawsOf(ds, s) == {k \in 1..Len(ds) : ds[k].spinId = s}

\* the step completes invocation inv of page a (it leaves the bag, and does not
\* move on to its next write)
Completes(a, inv) ==
  /\ BagIn(inv, confirm[a])
  /\ confirm'[a] = confirm[a] (-) SetToBag({inv})

\* the step makes a write of invocation inv of page a, or ends it
Advances(a, inv) ==
  /\ BagIn(inv, confirm[a])
  /\ CopiesIn(inv, confirm'[a]) < CopiesIn(inv, confirm[a])

\* a confirmation of page a succeeds in this step
ConfirmationSucceeds(a, inv) == Completes(a, inv) /\ toast'[a] = "Winner"

\* a confirmation of page a fails in this step
ConfirmationFails(a, inv) == Completes(a, inv) /\ toast'[a] = "Failed to record winner"

\* when a confirmation succeeds the winner has a draws entry and is not in the roster
ConfirmedWinnerRecordedAndRemoved ==
  \A a \in Admins : \A inv \in BagToSet(confirm[a]) :
    ConfirmationSucceeds(a, inv)
      => /\ \E k \in DrawsOf(draws', inv.spinId) :
              draws'[k].winner_participant_id = inv.winner.id
         /\ inv.winner.id \notin Ids(roster')

\* C6 as claimed: a successful confirmation leaves a draws entry for the winner
\* and the winner out of the roster, and as long as no confirmation of the
\* current spin was started its winner is in the roster and the spin has no
\* draws entry
C6_WinnerInRosterUntilConfirmed ==
  [][/\ ConfirmedWinnerRecordedAndRemoved
     /\ (spinState'.exists /\ spinState'.spinId \notin confirming')
          => /\ spinState'.winner.id \in Ids(roster')
             /\ DrawsOf(draws', spinState'.spinId) = {}]_vars

\* C6, amended: a successful confirmation leaves a draws entry for the winner
\* and the winner out of the roster; every draws entry belongs to a spin whose
\* confirmation was started; and the steps that publish a spin, deliver it to
\* the page or reveal it change neither the roster nor the draws
C6_RecordedAndRemovedOnConfirmation ==
  [][/\ ConfirmedWinnerRecordedAndRemoved
     /\ \A k \in 1..Len(draws') : draws'[k].spinId \in confirming'
     /\ (\/ spinState' # spinState
         \/ lastProcessedSpinId' # lastProcessedSpinId
         \/ timers' # timers
         \/ \E a \in Admins : ~showWinnerAnnouncement[a] /\ showWinnerAnnouncement'[a])
          => UNCHANGED <<roster, draws>>]_vars

\* C6 witness: a confirmation has just succeeded for the current spin, whose
\* winner is recorded in the draws and gone from the roster
C6_Witness ==
  \E a \in Admins :
    /\ toast[a] = "Winner"
    /\ spinState.spinId \in confirming
    /\ DrawsOf(draws, spinState.spinId) # {}
    /\ spinState.winner.id \notin Ids(roster)

\* C7: after a successful confirmation the record is not active
C7_RecordRetiredOnConfirmation ==
  [][\A a \in Admins : \A inv \in BagToSet(confirm[a]) :
       ConfirmationSucceeds(a, inv) => ~spinState'.isSpinning]_vars

\* C8: a confirmation for a spin that is not the current active record appends
\* no draws entry and removes no participant
C8_StaleConfirmationRejected ==
  [][\A a \in Admins : \A inv \in BagToSet(confirm[a]) :
       (Advances(a, inv) /\ ~(ActiveRecord /\ spinState.spinId = inv.spinId))
         => UNCHANGED <<draws, roster>>]_vars

\* C9: however often the confirmation of a spin is invoked, the spin has at most
\* one draws entry
C9_OneDrawsEntryPerSpin ==
  \A s \in confirming : Cardinality(DrawsOf(draws, s)) <= 1

\* C10: when a confirmation fails the record stays active, the page keeps the
\* pending winner, and a failure before the draws entry was written leaves the
\* roster as it was
C10_FailedConfirmationRetriable ==
  [][\A a \in Admins : \A inv \in BagToSet(confirm[a]) :
       ConfirmationFails(a, inv)
         => /\ spinState'.isSpinning
            /\ winnerParticipant'[a] = inv.winner
            /\ inv.pc = "addDoc" => roster' = roster]_vars

\* C11: no step changes or removes a draws document that exists: the draws of
\* the session only grow
C11_DrawsAppendOnly ==
  [][/\ Len(draws') >= Len(draws)
     /\ \A k \in 1..Len(draws) : draws'[k] = draws[k]]_vars

\* the record is older than the freshness window and the spin state listener
\* of observer o is subscribed
StaleFor(o) ==
  /\ listener[o] # Unsubscribed
  /\ spinState.exists
  /\ now - spinState.timestamp >= FreshnessWindowMs

\* what the Index page holds of a spin
Held(page) ==
  <<page.isSpinning, page.winner, page.spinDuration, page.finalRotation,
    page.lastProcessedSpinId>>

\* the step is the first delivery of the current record to observer o's page:
\* the page remembered no spin and now remembers the record's
FirstSnapshot(o) ==
  /\ listener[o] = NoSpinId
  /\ spinState.exists
  /\ index[o].lastProcessedSpinId = NoSpinId
  /\ index'[o].lastProcessedSpinId = spinState.spinId

\* C12: however often a record is delivered to an observer's listener, the
\* observer has at most one reveal timer pending for the spin
C12_OneRevealTimerPerSpin ==
  \A o \in Observers : \A i, j \in 1..Len(indexTimers[o]) :
    i # j => indexTimers[o][i].spinId # indexTimers[o][j].spinId

\* C13: an observer whose clock agrees with the server's and whose first
\* snapshot is an active record received t ms after its publication, with
\* 0 < t < duration, animates it with the remaining duration, duration - t
C13_LateJoinerAnimatesRemainder ==
  [][\A o \in Observers :
       (FirstSnapshot(o) /\ clockSkew[o] = 0 /\ spinState.isSpinning
          /\ now - spinState.timestamp > 0
          /\ now - spinState.timestamp < spinState.duration)
         => /\ index'[o].isSpinning
            /\ index'[o].spinDuration = spinState.duration - (now - spinState.timestamp)]_vars

\* C14: while the record is older than the freshness window, no step schedules a reveal timer or starts an animation; the first
\* snapshot records the record's spinId, and once the page holds that spinId
\* a delivery changes nothing of what the page holds of the spin
C14_StaleRecordNotAnimated ==
  [][\A o \in Observers :
       StaleFor(o)
         => /\ Len(indexTimers'[o]) <= Len(indexTimers[o])
            /\ index'[o].isSpinning => index[o].isSpinning
            /\ (listener[o] = NoSpinId /\ index'[o].activeSession
                  /\ index'[o].lastProcessedSpinId # index[o].lastProcessedSpinId)
                 => index'[o].lastProcessedSpinId = spinState.spinId
            /\ (index[o].lastProcessedSpinId = spinState.spinId /\ index'[o].activeSession)
                 => Held(index'[o]) = Held(index[o])]_vars

\* C15: for an observer who has left the session no reveal fires: no timer of
\* the page runs and its confetti is not switched on
C15_NoRevealAfterLeaving ==
  [][\A o \in Observers :
       ~index[o].activeSession
         => /\ Len(indexTimers'[o]) >= Len(indexTimers[o])
            /\ index'[o].showConfetti => index[o].showConfetti]_vars

\* 0-based index of the published winner in the roster
PublishedWinnerIndex == (CHOOSE k \in 1..Len(roster) : roster[k].id = spinState.winner.id) - 1

ScenarioFourParticipants ==
  /\ spinState.exists
  /\ Len(roster) = 4
  /\ [k \in 1..4 |-> roster[k].name] = <<"A", "B", "C", "D">>
  /\ spinState.winner = roster[3]

C18_ObserversAnimateTheRecord ==
  \A o \in Observers :
    (index[o].isSpinning /\ index[o].lastProcessedSpinId = spinState.spinId)
      => /\ index[o].winner = spinState.winner.name
         /\ index[o].finalRotation = spinState.rotation
         /\ index[o].spinDuration = spinState.duration
         /\ WheelTransitionDuration(index[o].isSpinning) = spinState.duration

\* C19: the wheel of an observer only ever turns to the rotation the page
\* copied from a published record
C19_RotationCopiedFromRecord ==
  [][\A o \in Observers :
       rotation'[o] # rotation[o] => rotation'[o] = index'[o].finalRotation]_vars

\* C20: an observer that takes in a new active record which is fresh on the
\* server's clock animates it, whatever its own clock shows
C20_FreshnessIndependentOfLocalClock ==
  [][\A o \in Observers :
       (/\ listener[o] # Unsubscribed
        /\ spinState.exists /\ spinState.isSpinning
        /\ now - spinState.timestamp < FreshnessWindowMs
        /\ index[o].lastProcessedSpinId # spinState.spinId
        /\ index'[o].lastProcessedSpinId = spinState.spinId)
         => index'[o].isSpinning]_vars

\* C21: no two participants of the session have the same display name
C21_DisplayNamesUnique ==
  \A i, k \in 1..Len(roster) : i # k => roster[i].name # roster[k].name

\* the characters of a generated code: upper-case letters and digits without
\* I, O, 0 and 1
CodeAlphabet == AlphanumericChars \ {"I", "O", "0", "1"}

\* C22: the session's generated code has exactly 6 characters of the code
\* alphabet and formatSessionCode leaves it unchanged; every formatted code has
\* at most 6 characters, all upper-case letters or digits, and formatting it
\* again changes nothing
C22_SessionCodeFormat ==
  /\ \A k \in 1..Len(sessions) :
       LET code == sessions[k].code
       IN  /\ Len(code) = 6
           /\ Chars(code) \subseteq CodeAlphabet
           /\ formatSessionCode(code) = code
  /\ \A j \in Joiners :
       /\ Len(join[j].formattedCode) <= 6
       /\ Chars(join[j].formattedCode) \subseteq AlphanumericChars
       /\ formatSessionCode(join[j].formattedCode) = join[j].formattedCode

\* C22 witness: a session has a generated code with both kinds of characters, one
\* visitor's typed code was cut to 6 characters and another's lost its separators
C22_Witness ==
  /\ \E k \in 1..Len(sessions) : Chars(sessions[k].code) = {"A", "2"}
  /\ \E j, k \in Joiners :
       /\ join[j].formattedCode = "AAAAAA"
       /\ join[k].formattedCode = "A2A2A2"

\* C23: no draws entry is added for a spin that already has one, whichever
\* page adds it and whether or not the page was reloaded in between
C23_OneHistoryEntryPerSpin ==
  [][\A s \in 1..MaxSpins :
       DrawsOf(draws, s) # {} => DrawsOf(draws', s) \subseteq DrawsOf(draws, s)]_vars

\* C24: when the winner announcement of a page opens, the reveal time of the
\* spin the page then shows (its receipt plus duration plus margin) has come: no
\* reveal timer of that spin is still pending with a later due time
C24_RevealNotBeforeItsTime ==
  [][\A a \in Admins :
       (showWinnerAnnouncement'[a] /\ ~showWinnerAnnouncement[a])
         => \A k \in 1..Len(timers'[a]) :
              timers'[a][k].spinId = lastProcessedSpinId'[a] => timers'[a][k].due <= now]_vars

\* C25: an observer whose clock agrees with the server's and whose first
\* snapshot is a record at least as old as its duration does not animate it: it
\* rests on the record's winner
C25_FinishedSpinNotAnimated ==
  [][\A o \in Observers :
       (FirstSnapshot(o) /\ clockSkew[o] = 0
          /\ now - spinState.timestamp >= spinState.duration)
         => /\ ~index'[o].isSpinning
            /\ index'[o].winner = spinState.winner.name]_vars

\* C26: after a reveal the page of an observer in the session returns to idle:
\* it stops spinning and its confetti is hidden
C26_ReturnsToIdleAfterReveal ==
  \A o \in Observers :
    (index[o].activeSession /\ index[o].showConfetti)
      ~> (~index[o].isSpinning /\ ~index[o].showConfetti)

\* the current document is malformed
Malformed ==
  /\ spinState.exists
  /\ \/ spinState.spinId = NoSpinId
     \/ spinState.timestamp = NoTimestamp
     \/ spinState.isSpinning /\ spinState.winner = NoParticipant

\* C27: while the current document is malformed no step changes what a page
\* holds of a spin or schedules a reveal, and no announcement is open on a page
\* that holds no winner
C27_MalformedSnapshotDropped ==
  [][\A a \in Admins :
       /\ (Malformed /\ spinState' = spinState)
            => /\ isSpinning'[a] = isSpinning[a]
               /\ winner'[a] = winner[a]
               /\ finalRotation'[a] = finalRotation[a]
               /\ spinDuration'[a] = spinDuration[a]
               /\ lastProcessedSpinId'[a] = lastProcessedSpinId[a]
               /\ Len(timers'[a]) <= Len(timers[a])
       /\ showWinnerAnnouncement'[a] => winnerParticipant'[a] # NoParticipant]_vars

\* observer o animates the current record and the segment under the pointer
\* of its wheel is the published winner's
OnWinner(o) ==
  /\ index[o].isSpinning
  /\ index[o].lastProcessedSpinId = spinState.spinId
  /\ index[o].participants # <<>>
  /\ LET k == SegmentUnderPointer(rotation[o], Len(index[o].participants))
     IN  index[o].participants[k + 1].id = spinState.winner.id

\* C28: once the wheel of an observer that animates a spin points at the
\* winner's segment it goes on doing so, whatever happens to the roster
C28_PointerStaysOnWinner ==
  [][\A o \in Observers :
       (OnWinner(o) /\ spinState' = spinState /\ index'[o].isSpinning)
         => OnWinner(o)']_vars

\* C29: a participant who has a draws entry is removed from the roster in the end
C29_RecordedWinnerRemoved ==
  \A w \in 1..MaxParticipants :
    (\E k \in 1..Len(draws) : draws[k].winner_participant_id = w) ~> (w \notin Ids(roster))

\* C30: a record is published only by a spinWheel call that has fetched the
\* roster, its winner is one of the fetched participants and its participantCount
\* their number; and such a call can publish any of the fetched participants
C30_WinnerFromFetchedRoster ==
  [][\A c \in Callers :
       LET ps == call[c].participants
       IN  /\ (spinState' # spinState /\ call'[c] # call[c])
                => /\ call[c].pc = "fetched"
                   /\ spinState'.participantCount = Len(ps)
                   /\ \E k \in 1..Len(ps) : spinState'.winner = ps[k]
           /\ (call[c].pc = "fetched" /\ nextSpinId < MaxSpins)
                => \A k \in 1..Len(ps) :
                     ENABLED (SpinWheelWrite(c) /\ spinState'.winner = ps[k])]_vars

\* C30 witness: for a roster of six the first participant is published as winner
C30_Witness ==
  /\ spinState.exists
  /\ Len(roster) = 6
  /\ spinState.participantCount = 6
  /\ spinState.winner = roster[1]

C33_SessionCodesUnique ==
  /\ \A i, k \in 1..Len(sessions) : sessions[i].code = sessions[k].code => i = k
  /\ \A j \in Joiners :
       join[j].pc = "participantsQuery"
         => Cardinality({k \in 1..Len(sessions) :
                           sessions[k].code = join[j].formattedCode}) = 1

\* C35: isAdmin is set only while a user is signed in, also when a lookup of
\* checkAdminStatus ends after the user has signed out
C35_AdminOnlyWhileSignedIn ==
  authProvider.isAdmin => authProvider.user # NoUser

\* C36: the session an Index page displays is a session its visitor has joined
\* and not left, and a reload restores a visitor who has joined a session into
\* such a session
C36_DisplaysTheJoinedSession ==
  [][\A o \in Observers :
       /\ index'[o].activeSession => index'[o].sessionId \in index'[o].localStorage
       /\ (checkForJoinedSession(o) /\ index[o].localStorage # {})
            => index'[o].activeSession]_vars

\* C37: the reveal tells an observer that they won exactly if the published
\* winner is the observer's own participant; an observer of the same name is
\* shown the winner's name
C37_OnlyTheWinnerIsTold ==
  [][\A o \in Observers : \A k \in 1..Len(indexTimers[o]) :
       IndexRevealTimer(o, k)
         => LET timer == indexTimers[o][k]
            IN  IF index[o].participantId # 0 /\ timer.winner.id = index[o].participantId
                THEN index'[o].toast = YouWon
                ELSE index'[o].toast = WinnerIs(timer.winner.name)]_vars

\* C38: an Index page without a session has no participants, whatever the
\* listeners of the session it has left deliver, and a page never has more than
\* one participants listener
C38_OneSubscriptionNoneAfterLeaving ==
  \A o \in Observers :
    /\ ~index[o].activeSession => index[o].participants = <<>>
    /\ Len(index[o].subscriptions) <= 1

\* C34: an admin page that is spinning comes to show the winner announcement or
\* to reset isSpinning; stated for the spins started at time 0, whose reveal is
\* due before the clock stops whenever the listener sets a timer for it
C34_SpinningEnds ==
  \A a \in Admins :
    (isSpinning[a] /\ now = 0) ~> (showWinnerAnnouncement[a] \/ ~isSpinning[a])

\* C39: while the current record is of another spin than the one an initialised
\* page remembers and was published 30 s ago or longer, no step changes what
\* the page holds of a spin or schedules a reveal timer
C39_StaleNewSpinIgnored ==
  [][\A o \in Observers :
       (/\ listener[o] # Unsubscribed
        /\ index[o].lastProcessedSpinId # NoSpinId
        /\ listener[o] = index[o].lastProcessedSpinId
        /\ spinState.exists
        /\ spinState.spinId # index[o].lastProcessedSpinId
        /\ now - spinState.timestamp >= FreshnessWindowMs
        /\ index'[o].activeSession)
         => /\ Held(index'[o]) = Held(index[o])
            /\ Len(indexTimers'[o]) <= Len(indexTimers[o])]_vars

====
